---- MODULE Spec2Model ----
(***************************************************************************)
(* Model of the bank-reconciliation core of protometa/accounts:            *)
(*   - JournalAmount / JournalLines      (src/src/entry/journal.rs)        *)
(*   - RecRules / GenEntry               (src/src/bank_txs/rec_rules.rs)   *)
(*   - BankTxs (the reconciler)          (src/src/bank_txs/mod.rs)         *)
(* Money is a decimal; it is modelled as an integer number of cents.       *)
(* Option<T> is modelled by the value itself or the sentinel None.         *)
(* Result<T> is modelled by a record [ok, val].                            *)
(* A let binding of the source that is read more than once is a parameter  *)
(* of a helper operator named after the step it belongs to.                *)
(***************************************************************************)
EXTENDS Integers, Sequences, FiniteSets, TLC

VARIABLES
    lnIn,        \* JournalLines::new: the `lines` argument
    lnBal,       \* JournalLines::new: the `balance_account` argument
    lnOut,       \* JournalLines::new: the returned Result (NoResult before the call)
    rules,       \* BankTxs.rules / the RecRules under test
    gTx,         \* the BankTx handed to RecRules::apply
    gEntry,      \* the recorded entry handed to GenEntry::match_entry
    gOp,         \* which GenEntry operation produced gOut
    gOut,        \* the value returned by that operation
    txs,         \* BankTxs.txs: the pool of unmatched transactions
    initial,     \* history: the pool as loaded
    removedAll,  \* history: every transaction returned by match_and_rm so far
    lastEntry,   \* the entry of the latest match_and_rm call
    lastRemoved, \* the Vec returned by the latest match_and_rm call
    poolBefore,  \* history: the pool when the latest call started
    generated,   \* the Result returned by the latest generate_entries call
    op,          \* the latest reconciler operation
    accA,        \* JournalAmount operations: self before the operation
    accB,        \* add_assign: the `other` argument
    accOut,      \* self after the latest operation
    accOp,       \* the latest JournalAmount operation
    pLine,       \* BankTx::from_str: the fields of the line, split at '|' and trimmed
    pOut,        \* BankTx::from_str: the returned Result (NoResult before the call)
    rawRules,    \* the documents of the rules file, as deserialized (RawRecRule)
    tVal,        \* template_deep: the JSON value handed in
    tEvaled,     \* the resolved bindings the closure substitutes
    tOut         \* the value after template_deep (NoResult before the call)

vars == <<lnIn, lnBal, lnOut, rules, gTx, gEntry, gOp, gOut, txs, initial,
          removedAll, lastEntry, lastRemoved, poolBefore, generated, op,
          accA, accB, accOut, accOp, pLine, pOut, rawRules,
          tVal, tEvaled, tOut>>

lineVars == <<lnIn, lnBal, lnOut>>
genVars == <<gTx, gEntry, gOp, gOut>>
poolVars == <<txs, initial, removedAll, lastEntry, lastRemoved, poolBefore,
              generated, op>>
amountVars == <<accA, accB, accOut, accOp>>
parseVars == <<pLine, pOut>>
templateVars == <<tVal, tEvaled, tOut>>

----------------------------------------------------------------------------
(* Bounds of the model *)

\* largest magnitude (in cents) of a line handed to JournalLines::new
MaxMoney == 2
\* longest list of lines handed to JournalLines::new
MaxLines == 3
\* longest rule list handed to RecRules::apply on its own
MaxRules == 3
\* largest pool of bank transactions loaded into BankTxs
MaxPool == 3
\* largest magnitude (in cents) of the amounts accumulated and inverted
MaxAmount == 10
\* most fields of a bank statement line
MaxFields == 6
\* deepest nesting of the JSON values handed to template_deep
MaxDepth == 2

----------------------------------------------------------------------------
(* Option and Result *)

None == "None"
NoResult == [ok |-> FALSE, val |-> "NoResult"]
Ok(v) == [ok |-> TRUE, val |-> v]
Err(msg) == [ok |-> FALSE, val |-> msg]

----------------------------------------------------------------------------
(* JournalAmount: src/src/entry/journal.rs *)

Debit(money) == [tag |-> "Debit", money |-> money]
Credit(money) == [tag |-> "Credit", money |-> money]

is_debit(amount) == amount.tag = "Debit"
is_credit(amount) == amount.tag = "Credit"

invert_AlwaysCredit(amount) == Credit(amount.money)

invert(amount) ==
    IF amount.tag = "Debit" THEN Credit(amount.money) ELSE Debit(amount.money)

abs_amount(amount) == amount.money

\* impl Neg for Money (src/src/money.rs): zero is returned as it is
MoneyNeg(money) == IF money # 0 THEN -money ELSE money

\* relative_self, relative_other: a credit counts as negative
Relative(amount) ==
    IF amount.tag = "Debit" THEN amount.money ELSE MoneyNeg(amount.money)

Retag_CreditOnZero(sum) == IF sum > 0 THEN Debit(sum) ELSE Credit(MoneyNeg(sum))

\* the amount add_assign stores for the sum
Retag(sum) == IF sum >= 0 THEN Debit(sum) ELSE Credit(MoneyNeg(sum))

\* impl AddAssign for JournalAmount: self after self += other
add_assign(self, other) == Retag(Relative(self) + Relative(other))

JournalLine(account, amount) == [account |-> account, amount |-> amount]

----------------------------------------------------------------------------
(* JournalLines::new: src/src/entry/journal.rs *)

\* the fold of JournalLines::new: the total of the magnitudes carrying `tag`
RECURSIVE TotalOf(_, _)
TotalOf(lines, tag) ==
    IF lines = <<>> THEN 0
    ELSE (IF Head(lines).amount.tag = tag THEN Head(lines).amount.money ELSE 0)
         + TotalOf(Tail(lines), tag)

\* the comparator handed to sort_by
LineOrdering(a, b) ==
    IF is_debit(a.amount) /\ is_credit(b.amount) THEN "Less"
    ELSE IF is_credit(a.amount) /\ is_debit(b.amount) THEN "Greater"
    ELSE "Equal"

InsertStable_Front(sorted, x) ==
    IF is_debit(x.amount) THEN <<x>> \o sorted ELSE Append(sorted, x)

\* stable insertion of x into an already sorted sequence
RECURSIVE InsertStable(_, _)
InsertStable(sorted, x) ==
    IF sorted = <<>> THEN <<x>>
    ELSE IF LineOrdering(x, Head(sorted)) = "Less" THEN <<x>> \o sorted
    ELSE <<Head(sorted)>> \o InsertStable(Tail(sorted), x)

\* Vec::sort_by (a stable sort) under LineOrdering
RECURSIVE SortLines(_)
SortLines(lines) ==
    IF lines = <<>> THEN <<>>
    ELSE InsertStable(SortLines(SubSeq(lines, 1, Len(lines) - 1)), lines[Len(lines)])

PushBalance_Swapped(lines, balance_account, total_debit, total_credit) ==
    IF balance_account # None /\ total_debit > total_credit
    THEN Append(lines, JournalLine(balance_account, Debit(total_debit - total_credit)))
    ELSE IF balance_account # None /\ total_credit > total_debit
    THEN Append(lines, JournalLine(balance_account, Credit(total_credit - total_debit)))
    ELSE lines

\* the lines after the balancing line, if any, has been pushed
PushBalance(lines, balance_account, total_debit, total_credit) ==
    IF balance_account # None /\ total_debit > total_credit
    THEN Append(lines, JournalLine(balance_account, Credit(total_debit - total_credit)))
    ELSE IF balance_account # None /\ total_credit > total_debit
    THEN Append(lines, JournalLine(balance_account, Debit(total_credit - total_debit)))
    ELSE lines

BalanceLines_NoCheck(lines, balance_account, total_debit, total_credit) ==
    Ok(SortLines(lines))

BalanceLines_StrictBalance(lines, balance_account, total_debit, total_credit) ==
    IF total_debit # total_credit
    THEN Err("Journal credits and debits are not equal and no balance account given")
    ELSE Ok(SortLines(lines))

\* JournalLines::new once the totals are folded
BalanceLines(lines, balance_account, total_debit, total_credit) ==
    IF balance_account = None /\ total_debit # total_credit
    THEN Err("Journal credits and debits are not equal and no balance account given")
    ELSE Ok(SortLines(PushBalance(lines, balance_account, total_debit, total_credit)))

\* JournalLines::new(lines, balance_account)
JournalLinesNew(lines, balance_account) ==
    IF lines = <<>> THEN Err("Journal lines cannot be empty")
    ELSE BalanceLines(lines, balance_account,
                      TotalOf(lines, "Debit"), TotalOf(lines, "Credit"))

----------------------------------------------------------------------------
(* Inputs of JournalLines::new *)

LineAccounts == {"Bank", "Owner Contributions"}
BalanceAccounts == {"Accounts Payable"}
LineAmounts == {Debit(m) : m \in 0..MaxMoney} \cup {Credit(m) : m \in 0..MaxMoney}
CandidateLines == {JournalLine(a, amt) : a \in LineAccounts, amt \in LineAmounts}

SeqsUpTo(S, n) == UNION {[1..k -> S] : k \in 0..n}

----------------------------------------------------------------------------
(* Finite maps (HashMap<String, _>, serde_json::Map<String, Value>) *)

EmptyMap == <<>>
is_empty(m) == DOMAIN m = {}

\* HashMap::extend / Map::extend: entries of `other` overwrite those of `m`
extend(m, other) ==
    [k \in DOMAIN m \cup DOMAIN other |-> IF k \in DOMAIN other THEN other[k] ELSE m[k]]

\* Map::insert
insert(m, k, v) ==
    [x \in DOMAIN m \cup {k} |-> IF x = k THEN v ELSE m[x]]

----------------------------------------------------------------------------
(* BankTx: src/src/bank_txs/mod.rs *)

BankTx(date, account, amount, memo) ==
    [date |-> date, account |-> account, amount |-> amount, memo |-> memo]

\* the string fields of the map BankTx serializes into (impl Serialize for BankTx)
TxFieldNames == {"date", "memo", "account"}
TxField(tx, name) ==
    CASE name = "date" -> tx.date
      [] name = "memo" -> tx.memo
      [] name = "account" -> tx.account

----------------------------------------------------------------------------
(* Rule predicates and value expressions (crate rule), as RecRule uses them.  *)
(* A predicate is ["eq", field, literal] or one whose evaluation fails;       *)
(* an Arg is a literal string, or an Expr: a variable reference or an         *)
(* expression whose evaluation fails.                                          *)

RuleEq(field, lit) == [op |-> "eq", field |-> field, lit |-> lit]
RuleFail == [op |-> "fail", field |-> "", lit |-> ""]

\* Rule::matches(&tx): Result<bool>
matches(rule, tx) ==
    IF rule.op = "fail" THEN Err("rule error")
    ELSE Ok(TxField(tx, rule.field) = rule.lit)

ArgString(s) == [kind |-> "String", s |-> s]
ArgVar(name) == [kind |-> "Expr", s |-> name]
ArgFail == [kind |-> "Expr", s |-> "fail"]

----------------------------------------------------------------------------
(* serde_json::Value leaves of a template.  A string is a sequence of atoms; *)
(* an atom is a piece of text or one "{name}" token.                          *)

VString(parts) == [k |-> "String", v |-> parts]
VNumber(n) == [k |-> "Number", v |-> n]
VNull == [k |-> "Null", v |-> 0]
\* an array is a sequence of values, an object a map from keys to values
VArray(elements) == [k |-> "Array", v |-> elements]
VObject(map) == [k |-> "Object", v |-> map]
Str(s) == VString(<<s>>)

Token(name) == "{" \o name \o "}"

RECURSIVE Flatten(_)
Flatten(parts) ==
    IF parts = <<>> THEN "" ELSE Head(parts) \o Flatten(Tail(parts))

----------------------------------------------------------------------------
(* RecRule, RecRules, GenEntry: src/src/bank_txs/rec_rules.rs *)

RecRule(rule, values, template) ==
    [rule |-> rule, values |-> values, template |-> template]

\* RawRecRule, as deserialized from a document of the rules file; `values` and
\* `entry` are Option<map>: Absent when the document has no such key
Absent == <<>>
Some(v) == <<v>>
RawRecRule(rule, values, entry) == [rule |-> rule, values |-> values, entry |-> entry]

\* serde_json values of a `values` mapping: a string, or an array (an
\* expression: ["var", name], or one whose evaluation fails)
JString(s) == [j |-> "String", s |-> s]
JVar(name) == [j |-> "Array", s |-> name]
JFail == [j |-> "Array", s |-> "fail"]

\* Arg::from_json: a JSON string is a literal, an array an expression
ArgFromJson(v) == IF v.j = "String" THEN ArgString(v.s) ELSE ArgVar(v.s)

ValueToArg_ImplicitVar(v) == IF v.j = "String" THEN ArgVar(v.s) ELSE ArgFromJson(v)

\* the closure of try_from that converts one value of the mapping
ValueToArg(v) == IF v.j = "String" THEN ArgFromJson(JString(v.s)) ELSE ArgFromJson(v)

\* Option::unwrap_or_default
UnwrapOrDefault(opt) == IF opt = Absent THEN EmptyMap ELSE opt[1]

\* values.into_iter().map(..).collect()
ConvertValues(values) == [k \in DOMAIN values |-> ValueToArg(values[k])]

\* impl TryFrom<RawRecRule> for RecRule (every raw rule of the model parses)
RecRuleTryFrom(raw) ==
    RecRule(raw.rule, ConvertValues(UnwrapOrDefault(raw.values)),
            UnwrapOrDefault(raw.entry))

\* impl FromStr for RecRules: each document converted, in order
RecRulesFromRaw(raws) == [i \in 1..Len(raws) |-> RecRuleTryFrom(raws[i])]

\* GenEntry::new; `consulted` is a ghost field: the indices of the rules whose
\* predicate has been evaluated for this GenEntry
GenEntryNew(tx) ==
    [tx |-> tx, values |-> EmptyMap, template |-> EmptyMap, consulted |-> <<>>]

\* the body of RecRule::apply once the predicate is evaluated to m
MergeRule(rule, i, ge, m) ==
    IF ~m.ok THEN Err("Error matching rule")
    ELSE IF m.val
         THEN Ok([ge EXCEPT !.values = extend(@, rule.values),
                            !.template = extend(@, rule.template),
                            !.consulted = Append(@, i)])
         ELSE Ok([ge EXCEPT !.consulted = Append(@, i)])

\* RecRule::apply(&self, ge) for the rule at index i
RecRuleApply(rule, i, ge) == MergeRule(rule, i, ge, matches(rule.rule, ge.tx))

RECURSIVE ApplyFrom(_, _, _)

AfterRule_NoStop(rs, i, r) ==
    IF ~r.ok THEN r ELSE ApplyFrom(rs, i + 1, r.val)

\* the loop body of RecRules::apply after rule.apply(&mut ge) returned r
AfterRule(rs, i, r) ==
    IF ~r.ok THEN r
    ELSE IF ~is_empty(rs[i].template) THEN r
    ELSE ApplyFrom(rs, i + 1, r.val)

\* the loop of RecRules::apply, from rule i on
ApplyFrom(rs, i, ge) ==
    IF i > Len(rs) THEN Ok(ge)
    ELSE AfterRule(rs, i, RecRuleApply(rs[i], i, ge))

\* RecRules::apply(&self, tx)
RecRulesApply(rs, tx) == ApplyFrom(rs, 1, GenEntryNew(tx))

----------------------------------------------------------------------------
(* GenEntry::evaluate: src/src/bank_txs/rec_rules.rs *)

\* one value binding resolved to a string: Arg::Expr is evaluated against the tx,
\* anything else is printed as it is
ArgEval(arg, tx) ==
    IF arg.kind = "Expr"
    THEN IF arg.s \notin TxFieldNames THEN Err("Error evaluating expression")
         ELSE Ok(TxField(tx, arg.s))
    ELSE Ok(arg.s)

\* collect::<Result<HashMap<String, String>>>() of the resolved bindings
CollectEvaled(results) ==
    IF \E k \in DOMAIN results : ~results[k].ok
    THEN Err("Error evaluating expression")
    ELSE Ok([k \in DOMAIN results |-> results[k].val])

\* the HashMap<String, String> of resolved bindings, or the error of a failing one
Evaled(ge) == CollectEvaled([k \in DOMAIN ge.values |-> ArgEval(ge.values[k], ge.tx)])

\* str::replace of the pattern "{k}" by v
ReplaceToken(parts, k, v) ==
    [i \in 1..Len(parts) |-> IF parts[i] = Token(k) THEN v ELSE parts[i]]

\* the closure handed to template_deep: the bindings are substituted one after
\* the other, in the order `order` in which the HashMap is iterated
RECURSIVE Interpolate(_, _, _)
Interpolate(parts, evaled, order) ==
    IF order = <<>> THEN parts
    ELSE Interpolate(ReplaceToken(parts, Head(order), evaled[Head(order)]),
                     evaled, Tail(order))

TemplateDeep_TopLevel(val, evaled, order) ==
    IF val.k = "String" THEN VString(Interpolate(val.v, evaled, order)) ELSE val

\* template_deep(val, f): the values of an object and the elements of an array
\* are walked, a string is replaced by f(string), anything else is left
RECURSIVE TemplateDeep(_, _, _)
TemplateDeep(val, evaled, order) ==
    IF val.k = "Object"
    THEN VObject([key \in DOMAIN val.v |-> TemplateDeep(val.v[key], evaled, order)])
    ELSE IF val.k = "Array"
    THEN VArray([i \in 1..Len(val.v) |-> TemplateDeep(val.v[i], evaled, order)])
    ELSE IF val.k = "String" THEN VString(Interpolate(val.v, evaled, order))
    ELSE val

\* the orders in which a HashMap with the keys S may be iterated
KeyOrders(S) ==
    {o \in [1..Cardinality(S) -> S] : \A i, j \in 1..Cardinality(S) : i # j => o[i] # o[j]}

\* the second half of evaluate: the template interpolated with the bindings ev
Templated(ge, order, ev) ==
    IF ~ev.ok THEN ev
    ELSE Ok([evaled |-> ev.val,
             templated |-> [k \in DOMAIN ge.template |->
                              TemplateDeep(ge.template[k], ev.val, order)]])

\* GenEntry::evaluate(&self): (evaled, templated)
Evaluate(ge, order) == Templated(ge, order, Evaled(ge))

(* Entry: src/src/entry/mod.rs, src/src/entry/payment.rs *)

Dates == {"2020-01-02", "2020-01-03"}

\* NaiveDate::from_str
ParseDate(s) == IF s \in Dates THEN Ok(s) ELSE Err("invalid date")

\* Money::from_str, on the strings that print an amount of the model
MoneyStrings == 0..9
ParseMoney(s) ==
    IF \E n \in MoneyStrings : ToString(n) = s
    THEN Ok(CHOOSE n \in MoneyStrings : ToString(n) = s)
    ELSE Err("Failed to convert string to Money")

\* s.replace(",", "").replace("$", ""), on the field texts of the model
StripMoney(s) == IF s = "$2" THEN "2" ELSE s

\* str::parse::<Money> of a trimmed field of a bank statement line
MoneyFromStr(s) == ParseMoney(StripMoney(s))

\* parts.next().context("Error getting <name> from bank tx: '<line>'")
MissingPart(name) == Err("Error getting " \o name \o " from bank tx")

MatchAmount_BothAsDebit(debit, credit) ==
    IF debit.ok THEN Ok(Debit(debit.val))
    ELSE IF credit.ok THEN Ok(Credit(credit.val))
    ELSE Err("Error parsing bank tx amount")

\* match (&debit, &credit)
MatchAmount(debit, credit) ==
    IF debit.ok /\ ~credit.ok THEN Ok(Debit(debit.val))
    ELSE IF ~debit.ok /\ credit.ok THEN Ok(Credit(credit.val))
    ELSE IF debit.ok /\ credit.ok THEN Err("Both credit and debit given in bank tx")
    ELSE Err("Error parsing bank tx amount")

\* the `?` on the amount, then Ok(Self { date, account, amount, memo })
TxOfParts(date, account, amount, memo) ==
    IF ~amount.ok THEN amount ELSE Ok(BankTx(date, account, amount.val, memo))

\* from_str once the first part was read as `date`: the `?` on the date, then
\* the parts in order, each missing part an error
FromParts(parts, date) ==
    IF ~date.ok THEN date
    ELSE IF Len(parts) < 2 THEN MissingPart("account")
    ELSE IF Len(parts) < 3 THEN MissingPart("debit")
    ELSE IF Len(parts) < 4 THEN MissingPart("credit")
    ELSE IF Len(parts) < 5 THEN MissingPart("memo")
    ELSE TxOfParts(date.val, parts[2],
                   MatchAmount(MoneyFromStr(parts[3]), MoneyFromStr(parts[4])),
                   parts[5])

\* impl FromStr for BankTx, on the parts s.split('|') yields, surrounding
\* whitespace removed
BankTxFromStr(parts) ==
    IF Len(parts) < 1 THEN MissingPart("date")
    ELSE FromParts(parts, ParseDate(parts[1]))

\* JournalAmount -> f64 -> serde_json Number -> Money (exact on cents of the model)
AmountToF64(amount) == abs_amount(amount)
MoneyFromNumber(n) == n

\* a string field of raw::Entry read out of the JSON document
RawString(doc, key) ==
    IF key \notin DOMAIN doc THEN Ok(None)
    ELSE IF doc[key].k = "String" THEN Ok(Flatten(doc[key].v))
    ELSE Err("invalid type: expected a string")

\* the amount field of raw::Entry (Money deserializes from a string or a number);
\* Ok(0) stands for the absent field, which has_amount tells apart
RawAmount(doc) ==
    IF "amount" \notin DOMAIN doc THEN Ok(0)
    ELSE IF doc["amount"].k = "Number" THEN Ok(MoneyFromNumber(doc["amount"].v))
    ELSE ParseMoney(Flatten(doc["amount"].v))

PaymentTypes == {"Payment Sent", "Payment Received"}

\* Entry::try_from(raw_entry) on the deserialized fields
EntryTryFrom(id, type, date, memo, party, account, has_amount, amount) ==
    IF ~id.ok \/ ~type.ok \/ ~date.ok \/ ~memo.ok \/ ~party.ok \/ ~account.ok \/ ~amount.ok
    THEN Err("invalid entry document")
    ELSE IF date.val = None THEN Err("missing field date")
    ELSE IF ~ParseDate(date.val).ok THEN Err("invalid date")
    ELSE IF id.val = None THEN Err("Id missing!")
    ELSE IF type.val \in PaymentTypes
         THEN IF party.val = None THEN Err("Party required for Payment Entry")
              ELSE IF account.val = None THEN Err("Account required for Payment Entry")
              ELSE IF ~has_amount THEN Err("Amount required for Payment Entry")
              ELSE Ok([id |-> id.val, date |-> date.val, memo |-> memo.val,
                       type |-> type.val, party |-> party.val,
                       account |-> account.val, amount |-> amount.val,
                       lines |-> <<>>])
    ELSE IF type.val \in {"Journal Entry", None}
         THEN Err("Journal lines cannot be empty")
    ELSE Err("not a valid Entry type")

\* serde_json::from_value::<raw::Entry> followed by Entry::try_from(raw_entry),
\* for documents without debits/credits/items
EntryFromDoc(doc) ==
    EntryTryFrom(RawString(doc, "id"), RawString(doc, "type"), RawString(doc, "date"),
                 RawString(doc, "memo"), RawString(doc, "party"),
                 RawString(doc, "account"), "amount" \in DOMAIN doc, RawAmount(doc))

\* a recorded journal entry (Body::Journal), its lines already a JournalLines
JournalEntryOf(id, date, lines) ==
    [id |-> id, date |-> date, memo |-> None, type |-> "Journal Entry",
     party |-> None, account |-> None, amount |-> 0, lines |-> lines]

\* Entry::date
EntryDate(entry) == entry.date

EntryRawLines_OwnSign(entry) ==
    IF entry.type = "Payment Sent"
    THEN <<JournalLine(entry.account, Debit(entry.amount)),
           JournalLine("Accounts Payable", Credit(entry.amount))>>
    ELSE IF entry.type = "Payment Received"
    THEN <<JournalLine(entry.account, Debit(entry.amount)),
           JournalLine("Accounts Receivable", Credit(entry.amount))>>
    ELSE entry.lines

\* the lines Entry::to_journal_entry_for_date hands to JournalLines::new
EntryRawLines(entry) ==
    IF entry.type = "Payment Sent"
    THEN <<JournalLine(entry.account, Credit(entry.amount)),
           JournalLine("Accounts Payable", Debit(entry.amount))>>
    ELSE IF entry.type = "Payment Received"
    THEN <<JournalLine(entry.account, Debit(entry.amount)),
           JournalLine("Accounts Receivable", Credit(entry.amount))>>
    ELSE entry.lines

\* Entry::to_journal_entry_for_date, then JournalEntry::lines
EntryLines(entry) == JournalLinesNew(EntryRawLines(entry), None)

----------------------------------------------------------------------------
(* GenEntry::generate and GenEntry::match_entry: src/src/bank_txs/rec_rules.rs *)

\* the default id: format!("{}-{}", date, famount)
DefaultId(tx) == tx.date \o "-" \o ToString(AmountToF64(tx.amount))

\* "set id if not set"
WithId(doc, evaled, tx) ==
    IF "id" \in DOMAIN doc THEN doc
    ELSE insert(doc, "id", Str(IF "id" \in DOMAIN evaled THEN evaled["id"]
                               ELSE DefaultId(tx)))

\* "set date if not set"
WithDate(doc, evaled, tx) ==
    IF "date" \in DOMAIN doc THEN doc
    ELSE insert(doc, "date", Str(IF "date" \in DOMAIN evaled THEN evaled["date"]
                                 ELSE tx.date))

WithMemo_Overwrite(doc, evaled, tx) ==
    insert(doc, "memo", Str(IF "memo" \in DOMAIN evaled THEN evaled["memo"] ELSE tx.memo))

\* "set memo if not set"
WithMemo(doc, evaled, tx) ==
    IF "memo" \in DOMAIN doc THEN doc
    ELSE insert(doc, "memo", Str(IF "memo" \in DOMAIN evaled THEN evaled["memo"]
                                 ELSE tx.memo))

DefaultType_AlwaysSent(tx) == "Payment Sent"

\* the default type of a generated entry
DefaultType(tx) == IF is_credit(tx.amount) THEN "Payment Received" ELSE "Payment Sent"

\* the account of the defaulted payment path: set from bank_account if not set
WithAccount(doc, evaled) ==
    IF "account" \notin DOMAIN doc /\ "bank_account" \in DOMAIN evaled
    THEN insert(doc, "account", Str(evaled["bank_account"]))
    ELSE doc

WithAmount_IfAbsent(doc, tx) ==
    IF "amount" \in DOMAIN doc THEN doc
    ELSE insert(doc, "amount", VNumber(AmountToF64(tx.amount)))

\* the amount of the defaulted payment path: always the magnitude of the tx
WithAmount(doc, tx) == insert(doc, "amount", VNumber(AmountToF64(tx.amount)))

\* "set type if not set": the defaulted payment path of generate
WithType(doc, evaled, tx) ==
    IF "type" \in DOMAIN doc THEN doc
    ELSE WithAccount(WithAmount(insert(doc, "type", Str(DefaultType(tx))), tx), evaled)

\* generate after evaluate()? returned ev
GenerateFrom(ge, ev) ==
    IF ~ev.ok THEN ev
    ELSE EntryFromDoc(
           WithType(
             WithMemo(
               WithDate(
                 WithId(ev.val.templated, ev.val.evaled, ge.tx),
                 ev.val.evaled, ge.tx),
               ev.val.evaled, ge.tx),
             ev.val.evaled, ge.tx))

\* GenEntry::generate(&self), its HashMap iterated in the order `order`
Generate(ge, order) == GenerateFrom(ge, Evaluate(ge, order))

\* no line on bank_account carries an amount other than the inverted tx amount
LinesAgree(lines, bank_account, amount) ==
    ~ \E i \in 1..Len(lines) :
          /\ lines[i].account = bank_account
          /\ lines[i].amount # invert(amount)

MatchEvaled_DateLast(ge, entry, ev, lines) ==
    IF ~ev.ok THEN ev
    ELSE IF "bank_account" \in DOMAIN ev.val
         THEN Ok(LinesAgree(lines, ev.val["bank_account"], ge.tx.amount))
    ELSE Ok(FALSE)

MatchEvaled_NoBinding(ge, entry, ev, lines) ==
    IF ~ev.ok THEN ev
    ELSE IF ge.tx.date # EntryDate(entry) THEN Ok(FALSE)
    ELSE Ok(\E i \in 1..Len(lines) : lines[i].amount = invert(ge.tx.amount))

MatchEvaled_AnyLine(ge, entry, ev, lines) ==
    IF ~ev.ok THEN ev
    ELSE IF ge.tx.date # EntryDate(entry) THEN Ok(FALSE)
    ELSE IF "bank_account" \in DOMAIN ev.val
         THEN Ok(\A i \in 1..Len(lines) : lines[i].amount = invert(ge.tx.amount))
    ELSE Ok(FALSE)

\* match_entry after evaluate() returned ev, on the journal lines of the entry
MatchEvaled(ge, entry, ev, lines) ==
    IF ~ev.ok THEN ev
    ELSE IF ge.tx.date # EntryDate(entry) THEN Ok(FALSE)
    ELSE IF "bank_account" \in DOMAIN ev.val
         THEN Ok(LinesAgree(lines, ev.val["bank_account"], ge.tx.amount))
    ELSE Ok(FALSE)

\* GenEntry::match_entry(&self, entry): Result<bool>
MatchEntry(ge, entry) == MatchEvaled(ge, entry, Evaled(ge), EntryLines(entry).val)

\* rules.apply(&tx).and_then(|g| g.match_entry(&entry))
MatchApplied(g, entry) == IF ~g.ok THEN g ELSE MatchEntry(g.val, entry)

\* the number of lines on bank_account
CountLines(lines, bank_account) ==
    Cardinality({i \in 1..Len(lines) : lines[i].account = bank_account})

\* the entry's required line count for a bank account: the number of its lines
\* on that account
RequiredLineCount(entry, bank_account) ==
    CountLines(EntryLines(entry).val, bank_account)

\* evaled.get("bank_account"), None when the name is not bound
BankAccountValue(ev) ==
    IF ev.ok /\ "bank_account" \in DOMAIN ev.val THEN ev.val["bank_account"] ELSE None

\* Some(required line count) on a match, None otherwise (Option as a set)
CountOnMatch(ge, entry, m) ==
    IF ~m.ok THEN m
    ELSE IF m.val
         THEN Ok({RequiredLineCount(entry, BankAccountValue(Evaled(ge)))})
    ELSE Ok({})

\* match_entry as BankTxs::match_and_rm consumes it, Result<Option<usize>>
MatchEntryCount(ge, entry) == CountOnMatch(ge, entry, MatchEntry(ge, entry))

----------------------------------------------------------------------------
(* BankTxs: src/src/bank_txs/mod.rs *)

SwapRemove_DropLast(v, position) == SubSeq(v, 1, Len(v) - 1)

\* Vec::swap_remove(position): the last element takes the place of the removed one
SwapRemove(v, position) ==
    [j \in 1..(Len(v) - 1) |-> IF j = position THEN v[Len(v)] ELSE v[j]]

UnwrapOrNone_ErrorMatches(m) == IF ~m.ok THEN {1} ELSE m.val

\* .unwrap_or(None)
UnwrapOrNone(m) == IF ~m.ok THEN {} ELSE m.val

\* .and_then(|g| g.match_entry(&entry))
AndThenMatch(g, entry) == IF ~g.ok THEN g ELSE MatchEntryCount(g.val, entry)

\* the closure of find_map for one tx:
\* rules.apply(&tx).and_then(|g| g.match_entry(&entry)).unwrap_or(None)
MatchOf(rs, tx, entry) == UnwrapOrNone(AndThenMatch(RecRulesApply(rs, tx), entry))

RECURSIVE FindFrom(_, _, _, _)

\* find_map at position i, the closure having returned m
FoundOr(pool, rs, entry, i, m) ==
    IF m # {} THEN {[position |-> i, relevant |-> CHOOSE r \in m : TRUE]}
    ELSE FindFrom(pool, rs, entry, i + 1)

\* find_map over the enumerated pool from position i on
FindFrom(pool, rs, entry, i) ==
    IF i > Len(pool) THEN {}
    ELSE FoundOr(pool, rs, entry, i, MatchOf(rs, pool[i], entry))

\* find_map over the enumerated pool: the first (position, relevant), as a set
FindMatch(pool, rs, entry) == FindFrom(pool, rs, entry, 1)

RECURSIVE MatchLoop(_, _, _, _)

LoopBody_Inclusive(pool, removed, rs, entry, found) ==
    IF \E hit \in found : Len(removed) <= hit.relevant
    THEN MatchLoop(SwapRemove(pool, (CHOOSE h \in found : TRUE).position),
                   Append(removed, pool[(CHOOSE h \in found : TRUE).position]),
                   rs, entry)
    ELSE [txs |-> pool, removed |-> removed]

\* the condition and the body of the while loop, find_map having returned found
LoopBody(pool, removed, rs, entry, found) ==
    IF \E hit \in found : Len(removed) < hit.relevant
    THEN MatchLoop(SwapRemove(pool, (CHOOSE h \in found : TRUE).position),
                   Append(removed, pool[(CHOOSE h \in found : TRUE).position]),
                   rs, entry)
    ELSE [txs |-> pool, removed |-> removed]

\* the `while let ... && removed.len() < relevant` loop of match_and_rm
MatchLoop(pool, removed, rs, entry) ==
    LoopBody(pool, removed, rs, entry, FindMatch(pool, rs, entry))

\* BankTxs::match_and_rm(&mut self, entry): the pool left and the Vec returned
MatchAndRm(pool, rs, entry) == MatchLoop(pool, <<>>, rs, entry)

\* what the caller of match_and_rm receives: the function returns Vec<BankTx>,
\* not a Result, so the value is always the Vec
Returned(removed) == Ok(removed)

\* the order of the keys `keys` under the iteration order `order`
Restrict(order, keys) == SelectSeq(order, LAMBDA k : k \in keys)

\* .generate() on the applied GenEntry
GenerateApplied(g, order) ==
    IF ~g.ok THEN g ELSE Generate(g.val, Restrict(order, DOMAIN g.val.values))

\* .evaluate() on the applied GenEntry
EvaluateApplied(g, order) ==
    IF ~g.ok THEN g ELSE Evaluate(g.val, Restrict(order, DOMAIN g.val.values))

\* one element of the map of generate_entries: self.rules.apply(tx)?.generate()?
GenerateOne(rs, tx, order) == GenerateApplied(RecRulesApply(rs, tx), order)

CollectEntries_LastError(results) ==
    IF \A i \in 1..Len(results) : results[i].ok
    THEN Ok([i \in 1..Len(results) |-> results[i].val])
    ELSE results[CHOOSE i \in 1..Len(results) :
                   ~results[i].ok /\ \A j \in (i + 1)..Len(results) : results[j].ok]

\* collect::<Result<Vec<Entry>>>(): the entries, or the first error
CollectEntries(results) ==
    IF \A i \in 1..Len(results) : results[i].ok
    THEN Ok([i \in 1..Len(results) |-> results[i].val])
    ELSE results[CHOOSE i \in 1..Len(results) :
                   ~results[i].ok /\ \A j \in 1..(i - 1) : results[j].ok]

\* BankTxs::generate_entries(&mut self);
\* orders[i] is the iteration order of the bindings of the i-th GenEntry
GenerateEntries(pool, rs, orders) ==
    CollectEntries([i \in 1..Len(pool) |-> GenerateOne(rs, pool[i], orders[i])])

----------------------------------------------------------------------------
(* Inputs: bank transactions, rules and recorded entries *)

D1 == "2020-01-02"
D2 == "2020-01-03"

\* the bank statement lines a pool is loaded from
TxSet ==
    { BankTx(D1, "XX00", Credit(1), "Transfer"),
      BankTx(D1, "XX00", Credit(2), "Transfer"),
      BankTx(D2, "XX00", Credit(1), "Transfer"),
      BankTx(D1, "YY11", Credit(1), "Transfer"),
      BankTx(D1, "XX00", Debit(1), "Misc") }

\* the bank statement lines rules are applied to: those, and a withdrawal that
\* the rules on "Transfer" hold of
GenTxSet == TxSet \cup {BankTx(D1, "XX00", Debit(2), "Transfer")}

\* rule: [eq, account, "XX00"]  values: {bank_account: Bank}
RawBank ==
    RawRecRule(RuleEq("account", "XX00"), Some([k \in {"bank_account"} |-> JString("Bank")]),
               Absent)
\* rule: [eq, account, "YY11"]  values: {bank_account: Cash}
RawCash ==
    RawRecRule(RuleEq("account", "YY11"), Some([k \in {"bank_account"} |-> JString("Cash")]),
               Absent)
\* rule: [eq, account, "YY11"]  values: {bank_account: Cash, note: <failing expression>}
RawCashFail ==
    RawRecRule(RuleEq("account", "YY11"),
               Some([k \in {"bank_account", "note"} |->
                  IF k = "note" THEN JFail ELSE JString("Cash")]),
               Absent)
\* rule: [eq, memo, "Transfer"]  entry: {party: ACME}
RawParty ==
    RawRecRule(RuleEq("memo", "Transfer"), Absent, Some([k \in {"party"} |-> Str("ACME")]))
\* rule: [eq, memo, "Transfer"]  values: {amount: "9"}
\*       entry: {party: ACME, amount: 9, memo: Fee}
RawAmountRule ==
    RawRecRule(RuleEq("memo", "Transfer"), Some([k \in {"amount"} |-> JString("9")]),
               Some([k \in {"party", "amount", "memo"} |->
                  CASE k = "party" -> Str("ACME")
                    [] k = "amount" -> VNumber(9)
                    [] k = "memo" -> Str("Fee")]))
\* rule: [eq, memo, "Misc"]  entry: {type: Payment Sent, party: ACME,
\*                                   account: "{bank_account}", amount: 9}
RawTyped ==
    RawRecRule(RuleEq("memo", "Misc"), Absent,
               Some([k \in {"type", "party", "account", "amount"} |->
                  CASE k = "type" -> Str("Payment Sent")
                    [] k = "party" -> Str("ACME")
                    [] k = "account" -> VString(<<Token("bank_account")>>)
                    [] k = "amount" -> VNumber(9)]))
\* a rule whose predicate fails to evaluate
RawBroken == RawRecRule(RuleFail, Some([k \in {"bank_account"} |-> JString("Bank")]), Absent)
\* rule: [eq, memo, "Transfer"]  values: {note: <failing expression>}
RawNote == RawRecRule(RuleEq("memo", "Transfer"), Some([k \in {"note"} |-> JFail]), Absent)
\* rule: [eq, memo, "Transfer"]  values: {tag: memo, memo: [var, account]}
RawTag ==
    RawRecRule(RuleEq("memo", "Transfer"),
               Some([k \in {"tag", "memo"} |->
                  IF k = "tag" THEN JString("memo") ELSE JVar("account")]),
               Absent)

CandidateRawRules ==
    {RawBank, RawCash, RawParty, RawAmountRule, RawTyped, RawBroken, RawNote, RawTag}

\* the rule files RecRules::apply is exercised on
RawRuleSets == SeqsUpTo(CandidateRawRules, MaxRules)

\* the rule files a reconciliation runs under
RawPoolRuleSets ==
    { <<RawBank, RawParty>>,
      <<RawBank, RawCash, RawParty>>,
      <<RawBank, RawCashFail, RawParty>>,
      <<RawBank, RawNote, RawParty>>,
      <<RawBank, RawBroken, RawParty>> }

\* a recorded journal entry with the given lines
Recorded(id, date, lines) == JournalEntryOf(id, date, JournalLinesNew(lines, None).val)

\* a recorded payment
Payment(id, type, date, account, amount) ==
    [id |-> id, date |-> date, memo |-> None, type |-> type, party |-> "ACME",
     account |-> account, amount |-> amount, lines |-> <<>>]

RecordedEntries ==
    { Recorded("e1", D1, <<JournalLine("Bank", Debit(1)),
                           JournalLine("Owner Contributions", Credit(1))>>),
      Recorded("e2", D1, <<JournalLine("Bank", Debit(1)), JournalLine("Bank", Debit(1)),
                           JournalLine("Owner Contributions", Credit(2))>>),
      Recorded("e3", D1, <<JournalLine("Bank", Debit(2)), JournalLine("Bank", Debit(1)),
                           JournalLine("Owner Contributions", Credit(3))>>),
      Recorded("e4", D2, <<JournalLine("Bank", Debit(1)),
                           JournalLine("Owner Contributions", Credit(1))>>),
      Recorded("e5", D1, <<JournalLine("Owner Contributions", Debit(1)),
                           JournalLine("Sales", Credit(1))>>),
      Recorded("e6", D1, <<JournalLine("Bank", Debit(1)), JournalLine("Cash", Debit(1)),
                           JournalLine("Owner Contributions", Credit(2))>>),
      Payment("e7", "Payment Sent", D1, "Bank", 1) }

NoEntry == JournalEntryOf("none", "none", <<>>)
NoTx == BankTx("none", "none", Debit(0), "none")

\* the names a rule list binds
ValueNames(rs) == UNION {DOMAIN rs[i].values : i \in 1..Len(rs)}

----------------------------------------------------------------------------
(* Specification of JournalLines::new on its own *)

LinesIdle == lnIn = <<>> /\ lnBal = None /\ lnOut = NoResult
AmountIdle == accA = Debit(0) /\ accB = Debit(0) /\ accOut = Debit(0) /\ accOp = "idle"
ParseIdle == pLine = <<>> /\ pOut = NoResult
TemplateIdle == tVal = VNull /\ tEvaled = EmptyMap /\ tOut = NoResult
GenIdle == gTx = NoTx /\ gEntry = NoEntry /\ gOp = "idle" /\ gOut = NoResult
PoolIdle ==
    /\ txs = <<>> /\ initial = <<>> /\ removedAll = <<>> /\ lastEntry = NoEntry
    /\ lastRemoved = <<>> /\ poolBefore = <<>> /\ generated = NoResult /\ op = "idle"

InitLines ==
    /\ lnIn \in SeqsUpTo(CandidateLines, MaxLines)
    /\ lnBal \in BalanceAccounts \cup {None}
    /\ lnOut = NoResult
    /\ rules = <<>>
    /\ rawRules = <<>>
    /\ TemplateIdle
    /\ GenIdle
    /\ PoolIdle
    /\ AmountIdle
    /\ ParseIdle

Build ==
    /\ lnOut = NoResult
    /\ lnOut' = JournalLinesNew(lnIn, lnBal)
    /\ UNCHANGED <<lnIn, lnBal, rules, rawRules, genVars, poolVars, amountVars, parseVars, templateVars>>

NextLines == Build

SpecLines == InitLines /\ [][NextLines]_vars

----------------------------------------------------------------------------
(* Specification of RecRules::apply and the GenEntry operations on one tx *)

InitGen ==
    /\ rawRules \in RawRuleSets
    /\ rules = RecRulesFromRaw(rawRules)
    /\ TemplateIdle
    /\ gTx \in GenTxSet
    /\ gEntry = NoEntry
    /\ gOp = "init"
    /\ gOut = NoResult
    /\ LinesIdle
    /\ PoolIdle
    /\ AmountIdle
    /\ ParseIdle

\* rules.apply(&tx)
Apply ==
    /\ gOp' = "apply"
    /\ gEntry' = NoEntry
    /\ gOut' = RecRulesApply(rules, gTx)
    /\ UNCHANGED <<rules, rawRules, gTx, lineVars, poolVars, amountVars, parseVars, templateVars>>

\* rules.apply(&tx).and_then(|g| g.match_entry(&entry))
Match ==
    \E entry \in RecordedEntries :
        /\ gOp' = "match_entry"
        /\ gEntry' = entry
        /\ gOut' = MatchApplied(RecRulesApply(rules, gTx), entry)
        /\ UNCHANGED <<rules, rawRules, gTx, lineVars, poolVars, amountVars, parseVars, templateVars>>

\* rules.apply(tx)?.generate()
GenerateEntry ==
    \E order \in KeyOrders(ValueNames(rules)) :
        /\ gOp' = "generate"
        /\ gEntry' = NoEntry
        /\ gOut' = GenerateOne(rules, gTx, order)
        /\ UNCHANGED <<rules, rawRules, gTx, lineVars, poolVars, amountVars, parseVars, templateVars>>

\* rules.apply(&tx)?.evaluate()
EvaluateEntry ==
    \E order \in KeyOrders(ValueNames(rules)) :
        /\ gOp' = "evaluate"
        /\ gEntry' = NoEntry
        /\ gOut' = EvaluateApplied(RecRulesApply(rules, gTx), order)
        /\ UNCHANGED <<rules, rawRules, gTx, lineVars, poolVars, amountVars, parseVars, templateVars>>

NextGen == Apply \/ Match \/ GenerateEntry \/ EvaluateEntry

SpecGen == InitGen /\ [][NextGen]_vars

----------------------------------------------------------------------------
(* Specification of the reconciler: a pool, match_and_rm calls, generate_entries *)

Init ==
    /\ rawRules \in RawPoolRuleSets
    /\ rules = RecRulesFromRaw(rawRules)
    /\ TemplateIdle
    /\ txs \in SeqsUpTo(TxSet, MaxPool)
    /\ initial = txs
    /\ removedAll = <<>>
    /\ lastEntry = NoEntry
    /\ lastRemoved = <<>>
    /\ poolBefore = txs
    /\ generated = NoResult
    /\ op = "load"
    /\ LinesIdle
    /\ GenIdle
    /\ AmountIdle
    /\ ParseIdle

\* txs.match_and_rm(entry)
MatchAndRemove ==
    \E entry \in RecordedEntries :
        \E r \in {MatchAndRm(txs, rules, entry)} :
            /\ txs' = r.txs
            /\ lastRemoved' = r.removed
            /\ removedAll' = removedAll \o r.removed
            /\ lastEntry' = entry
            /\ poolBefore' = txs
            /\ generated' = NoResult
            /\ op' = "match_and_rm"
            /\ UNCHANGED <<rules, rawRules, initial, lineVars, genVars, amountVars, parseVars, templateVars>>

\* txs.generate_entries()
GenerateRemaining ==
    \E orders \in [1..Len(txs) -> KeyOrders(ValueNames(rules))] :
        /\ generated' = GenerateEntries(txs, rules, orders)
        /\ lastEntry' = NoEntry
        /\ lastRemoved' = <<>>
        /\ poolBefore' = txs
        /\ op' = "generate_entries"
        /\ UNCHANGED <<rules, rawRules, txs, initial, removedAll, lineVars, genVars, amountVars,
                     parseVars, templateVars>>

Next == MatchAndRemove \/ GenerateRemaining

Spec == Init /\ [][Next]_vars

----------------------------------------------------------------------------
(* Specification of a reconciliation run again on the entries it generated *)

\* txs.match_and_rm(entry) for each entry of `entries` in order, on the pool
\* `pool`: the pool left and all the transactions removed
RECURSIVE MatchAndRmEach(_, _, _, _)
MatchAndRmEach(pool, removed, rs, entries) ==
    IF entries = <<>> THEN [txs |-> pool, removed |-> removed]
    ELSE MatchAndRmEach(MatchAndRm(pool, rs, Head(entries)).txs,
                        removed \o MatchAndRm(pool, rs, Head(entries)).removed,
                        rs, Tail(entries))

\* the entries generate_entries returned are recorded and fed to match_and_rm
\* one after the other, on the pool they were generated from
MatchGenerated ==
    /\ op = "generate_entries"
    /\ generated.ok
    /\ \E r \in {MatchAndRmEach(txs, <<>>, rules, generated.val)} :
           /\ txs' = r.txs
           /\ lastRemoved' = r.removed
           /\ removedAll' = removedAll \o r.removed
    /\ poolBefore' = txs
    /\ op' = "match_generated"
    /\ UNCHANGED <<rules, rawRules, initial, lastEntry, generated, lineVars, genVars,
                   amountVars, parseVars, templateVars>>

\* generate_entries on the loaded pool
GenerateLoaded == op = "load" /\ GenerateRemaining

NextReplay == GenerateLoaded \/ MatchGenerated

SpecReplay == Init /\ [][NextReplay]_vars

----------------------------------------------------------------------------
(* Specification of BankTx::from_str *)

\* the texts a field of a line holds: a date, nothing, two money values (one
\* with a currency symbol) and a text that is neither
FieldTexts == {"2020-01-02", "", "1", "$2", "abc"}

StatementLines == UNION {[1..n -> FieldTexts] : n \in 1..MaxFields}

InitParse ==
    /\ pLine \in StatementLines
    /\ pOut = NoResult
    /\ rules = <<>>
    /\ rawRules = <<>>
    /\ TemplateIdle
    /\ LinesIdle
    /\ GenIdle
    /\ PoolIdle
    /\ AmountIdle

\* line.parse::<BankTx>()
Parse ==
    /\ pOut = NoResult
    /\ pOut' = BankTxFromStr(pLine)
    /\ UNCHANGED <<pLine, rules, rawRules, lineVars, genVars, poolVars, amountVars, templateVars>>

NextParse == Parse

SpecParse == InitParse /\ [][NextParse]_vars

----------------------------------------------------------------------------
(* Specification of the JournalAmount operations *)

Amounts == {Debit(m) : m \in 0..MaxAmount} \cup {Credit(m) : m \in 0..MaxAmount}

InitAmount ==
    /\ accA \in Amounts
    /\ accB \in Amounts
    /\ accOut = accA
    /\ accOp = "new"
    /\ rules = <<>>
    /\ rawRules = <<>>
    /\ TemplateIdle
    /\ LinesIdle
    /\ GenIdle
    /\ PoolIdle
    /\ ParseIdle

\* self += other
Accumulate ==
    /\ accOp = "new"
    /\ accOut' = add_assign(accOut, accB)
    /\ accOp' = "add_assign"
    /\ UNCHANGED <<accA, accB, rules, rawRules, lineVars, genVars, poolVars, parseVars, templateVars>>

\* self = self.invert(), at most twice
Invert ==
    /\ accOp \in {"new", "invert"}
    /\ accOut' = invert(accOut)
    /\ accOp' = IF accOp = "new" THEN "invert" ELSE "invert_twice"
    /\ UNCHANGED <<accA, accB, rules, rawRules, lineVars, genVars, poolVars, parseVars, templateVars>>

NextAmount == Accumulate \/ Invert

SpecAmount == InitAmount /\ [][NextAmount]_vars

----------------------------------------------------------------------------
(* Specification of template_deep on its own *)

TemplateLeaf == VString(<<"test ", Token("value")>>)

\* the leaves of template_deep_test, and a token that names no binding
Leaves ==
    <<Str("test string"), TemplateLeaf, VString(<<Token("other"), " test">>),
      VNumber(12), VNull>>

\* the JSON values that wrap one of the values `inner`; one object has the
\* text of a token as its key
Wrapped(inner) ==
    [i \in 1..Len(inner) |-> VArray(<<inner[i]>>)]
    \o [i \in 1..Len(inner) |-> VArray(<<inner[i], TemplateLeaf>>)]
    \o [i \in 1..Len(inner) |-> VObject([key \in {"{value}"} |-> inner[i]])]
    \o [i \in 1..Len(inner) |->
          VObject([key \in {"nested", "template"} |->
                     IF key = "nested" THEN inner[i] ELSE TemplateLeaf])]

\* the JSON values nested at most d deep
RECURSIVE ValuesOfDepth(_)
ValuesOfDepth(d) ==
    IF d = 0 THEN Leaves
    ELSE ValuesOfDepth(d - 1) \o Wrapped(ValuesOfDepth(d - 1))

\* the resolved bindings the closure is built from; in the last one the value
\* of `value` is a literal that reads as the token of `string`
BindingSets ==
    {EmptyMap,
     [name \in {"value"} |-> "result"],
     [name \in {"value", "string"} |-> IF name = "value" THEN "result" ELSE "text"],
     [name \in {"value", "string"} |-> IF name = "value" THEN Token("string") ELSE "text"]}

InitTemplate ==
    /\ \E i \in 1..Len(ValuesOfDepth(MaxDepth)) : tVal = ValuesOfDepth(MaxDepth)[i]
    /\ tEvaled \in BindingSets
    /\ tOut = NoResult
    /\ rules = <<>>
    /\ rawRules = <<>>
    /\ LinesIdle
    /\ GenIdle
    /\ PoolIdle
    /\ AmountIdle
    /\ ParseIdle

\* template_deep(&mut val, |s| { each "{k}" replaced by its value })
Template ==
    \E order \in KeyOrders(DOMAIN tEvaled) :
        /\ tOut = NoResult
        /\ tOut' = Ok(TemplateDeep(tVal, tEvaled, order))
        /\ UNCHANGED <<tVal, tEvaled, rules, rawRules, lineVars, genVars, poolVars,
                       amountVars, parseVars>>

NextTemplate == Template

SpecTemplate == InitTemplate /\ [][NextTemplate]_vars

----------------------------------------------------------------------------
(* Vocabulary of the properties *)

\* how often x occurs in the sequence s
Occurrences(s, x) == Cardinality({i \in 1..Len(s) : s[i] = x})

\* the bank_account a successfully applied and evaluated GenEntry binds, or None
BoundAccount(g) ==
    IF g.ok /\ Evaled(g.val).ok /\ "bank_account" \in DOMAIN Evaled(g.val).val
    THEN Evaled(g.val).val["bank_account"]
    ELSE None

\* the bank_account the rules rs bind for tx, or None
BankAccountOf(rs, tx) == BoundAccount(RecRulesApply(rs, tx))

\* the amount with the sign flipped and the magnitude kept
Flipped(amount) ==
    [tag |-> IF amount.tag = "Debit" THEN "Credit" ELSE "Debit", money |-> amount.money]

\* rules.apply(&gTx) succeeded and match_entry was called on its result
MatchCalled == gOp = "match_entry" /\ RecRulesApply(rules, gTx).ok

\* the GenEntry of gTx (read only where MatchCalled or after a successful apply)
Applied == RecRulesApply(rules, gTx).val

\* the positions of the pool holding a transaction of the given date
OnDate(pool, date) == {i \in 1..Len(pool) : pool[i].date = date}

\* the positions of the lines of the entry on the account B
LinesOn(entry, B) ==
    {i \in 1..Len(EntryLines(entry).val) : EntryLines(entry).val[i].account = B}

BankAccounts == {"Bank", "Cash"}

\* match_entry returned Ok(false)
ReturnedFalse == gOut.ok /\ gOut.val = FALSE

\* the GenEntry of the i-th transaction of the pool the latest call started with
AppliedAt(i) == RecRulesApply(rules, poolBefore[i])

\* what match_entry returned to the latest match_and_rm call for that transaction
ResultAt(i) == MatchApplied(AppliedAt(i), lastEntry)

IsFalse(r) == r.ok /\ r.val = FALSE

\* r is the error of evaluating the bindings of the GenEntry g
IsEvalError(r, g) == ~r.ok /\ ~Evaled(g.val).ok /\ r = Evaled(g.val)

\* the predicate of the rule evaluates to true on tx
Holds(rule, tx) == matches(rule, tx).ok /\ matches(rule, tx).val

----------------------------------------------------------------------------
(* C1: every line set that JournalLines::new returns successfully, for any    *)
(* non-empty lines and any optional balance account, has a total of Debit     *)
(* magnitudes equal to its total of Credit magnitudes.                         *)
C1_Balanced ==
    lnOut.ok => TotalOf(lnOut.val, "Debit") = TotalOf(lnOut.val, "Credit")

\* an unbalanced input was completed by a line on the balance account
C1_Witness ==
    /\ lnOut.ok
    /\ lnBal # None
    /\ TotalOf(lnIn, "Debit") # TotalOf(lnIn, "Credit")
    /\ Len(lnOut.val) = Len(lnIn) + 1

----------------------------------------------------------------------------
(* C2: after any sequence of match_and_rm calls, the multiset of all returned *)
(* transactions plus the remaining pool equals the initial pool: every        *)
(* transaction is still in the pool or was returned by exactly one call.      *)
C2_Conservation ==
    /\ Len(removedAll) + Len(txs) = Len(initial)
    /\ \A t \in TxSet :
          Occurrences(removedAll, t) + Occurrences(txs, t) = Occurrences(initial, t)

\* two calls returned transactions and some transaction is still in the pool
C2_Witness ==
    /\ op = "match_and_rm"
    /\ lastRemoved # <<>>
    /\ Len(removedAll) > Len(lastRemoved)
    /\ txs # <<>>

----------------------------------------------------------------------------
(* C3: one call match_and_rm(entry) never removes more transactions than the  *)
(* entry's required line count, the number of its lines on the matched        *)
(* bank_account: the j-th transaction removed is bound to an account the      *)
(* entry has at least j lines on (so nothing is removed for an account the    *)
(* entry has no line on), and of two identical matching transactions exactly  *)
(* one is removed when the entry has one line on the account every            *)
(* transaction of the pool is bound to.                                       *)

\* the pool held two identical transactions matching the entry, every transaction
\* of the pool is bound to one account, and the entry has one line on it
C3_TwoIdentical ==
    /\ op = "match_and_rm"
    /\ \E B \in BankAccounts :
          /\ \A i \in 1..Len(poolBefore) : BankAccountOf(rules, poolBefore[i]) = B
          /\ RequiredLineCount(lastEntry, B) = 1
    /\ \E i, j \in 1..Len(poolBefore) :
          /\ i # j
          /\ poolBefore[i] = poolBefore[j]
          /\ MatchOf(rules, poolBefore[i], lastEntry) # {}

----------------------------------------------------------------------------
(* C4: given an entry with k lines on bank account B (the amounts may differ) *)
(* and a pool whose transactions on the entry's date are k transactions bound *)
(* to B with inverted amounts equal to those lines one-to-one,                *)
(* match_and_rm(entry) removes exactly those k transactions and every other   *)
(* transaction of the pool remains.                                           *)

\* the transactions at the positions I pair one-to-one with the lines at the
\* positions L, each inverted amount equal to the amount of its line
OneToOne(pool, I, lines, L) ==
    \E f \in [I -> L] :
        /\ \A i, j \in I : i # j => f[i] # f[j]
        /\ \A l \in L : \E i \in I : f[i] = l
        /\ \A i \in I : invert(pool[i].amount) = lines[f[i]].amount

C4_Given(B) ==
    /\ LinesOn(lastEntry, B) # {}
    /\ \A i \in OnDate(poolBefore, EntryDate(lastEntry)) :
          BankAccountOf(rules, poolBefore[i]) = B
    /\ OneToOne(poolBefore, OnDate(poolBefore, EntryDate(lastEntry)),
                EntryLines(lastEntry).val, LinesOn(lastEntry, B))

C4_MultipleLines ==
    \A B \in BankAccounts :
        (op = "match_and_rm" /\ C4_Given(B)) =>
            \A t \in TxSet :
                /\ Occurrences(lastRemoved, t) =
                     Cardinality({i \in OnDate(poolBefore, EntryDate(lastEntry)) :
                                     poolBefore[i] = t})
                /\ Occurrences(txs, t) =
                     Cardinality({i \in 1..Len(poolBefore) :
                                     /\ i \notin OnDate(poolBefore, EntryDate(lastEntry))
                                     /\ poolBefore[i] = t})

----------------------------------------------------------------------------
(* C5: when the transaction date equals the entry's date and the resolved     *)
(* bindings contain bank_account, match_entry returns false if and only if    *)
(* some line of the entry is on that account with an amount different from    *)
(* the transaction's amount with the sign flipped; otherwise it returns true. *)

C5_Given ==
    /\ MatchCalled
    /\ gTx.date = EntryDate(gEntry)
    /\ BoundAccount(RecRulesApply(rules, gTx)) # None

----------------------------------------------------------------------------
(* C6: a transaction whose accumulated bindings contain no bank_account is    *)
(* never matched.  As claimed: match_entry returns false for every entry.     *)
(* As amended: match_entry returns false, or the error of a binding that      *)
(* fails to evaluate, never true, and match_and_rm never removes such a       *)
(* transaction.                                                               *)

\* the latest call saw, at position i of the pool, a transaction the rules apply
\* to without binding bank_account
C6_Case(i) ==
    /\ op = "match_and_rm"
    /\ AppliedAt(i).ok
    /\ "bank_account" \notin DOMAIN AppliedAt(i).val.values

C6_AlwaysFalse ==
    \A i \in 1..Len(poolBefore) : C6_Case(i) => IsFalse(ResultAt(i))

C6_NeverMatched ==
    \A i \in 1..Len(poolBefore) :
        C6_Case(i) =>
            /\ IsFalse(ResultAt(i)) \/ IsEvalError(ResultAt(i), AppliedAt(i))
            /\ Occurrences(lastRemoved, poolBefore[i]) = 0

\* such a transaction stayed, on the date of an entry that has a line with its
\* flipped amount, while the call removed another transaction
C6_Witness ==
    /\ lastRemoved # <<>>
    /\ \E i \in 1..Len(poolBefore) :
          /\ C6_Case(i)
          /\ IsFalse(ResultAt(i))
          /\ poolBefore[i].date = EntryDate(lastEntry)
          /\ \E l \in 1..Len(EntryLines(lastEntry).val) :
                EntryLines(lastEntry).val[l].amount = Flipped(poolBefore[i].amount)
          /\ Occurrences(txs, poolBefore[i]) = Occurrences(poolBefore, poolBefore[i])

----------------------------------------------------------------------------
(* C7: the dates differ.  As claimed: match_entry returns false whatever the  *)
(* rules bind.  As amended: match_entry returns false, or the error of a      *)
(* binding that fails to evaluate (evaluate runs before the dates are         *)
(* compared), never true; hence every transaction removed by                  *)
(* match_and_rm(entry) has exactly the entry's date.                          *)

\* the latest call saw, at position i of the pool, a transaction the rules apply
\* to and whose date is not the entry's
C7_Case(i) ==
    /\ op = "match_and_rm"
    /\ AppliedAt(i).ok
    /\ poolBefore[i].date # EntryDate(lastEntry)

C7_DateDiffersFalse ==
    \A i \in 1..Len(poolBefore) : C7_Case(i) => IsFalse(ResultAt(i))

C7_DateDiffersNeverTrue ==
    /\ \A i \in 1..Len(poolBefore) :
          C7_Case(i) =>
              IsFalse(ResultAt(i)) \/ IsEvalError(ResultAt(i), AppliedAt(i))
    /\ op = "match_and_rm" =>
          \A j \in 1..Len(lastRemoved) : lastRemoved[j].date = EntryDate(lastEntry)

\* a transaction of another date stayed although its account is bound and every
\* line on it agrees, while the call removed a transaction of the entry's date
C7_Witness ==
    /\ lastRemoved # <<>>
    /\ \E i \in 1..Len(poolBefore) :
          /\ C7_Case(i)
          /\ IsFalse(ResultAt(i))
          /\ BoundAccount(AppliedAt(i)) # None
          /\ LinesOn(lastEntry, BoundAccount(AppliedAt(i))) # {}
          /\ \A l \in LinesOn(lastEntry, BoundAccount(AppliedAt(i))) :
                EntryLines(lastEntry).val[l].amount = Flipped(poolBefore[i].amount)
          /\ Occurrences(txs, poolBefore[i]) = Occurrences(poolBefore, poolBefore[i])

----------------------------------------------------------------------------
(* C8: rule short-circuit.  For rules R1 (predicate true, values only), R2    *)
(* (predicate true, non-empty template), R3 in that order, apply(tx) returns  *)
(* the bindings of R1 merged with those of R2 and the template of R2, and R3  *)
(* is never consulted: its predicate is not evaluated and none of its         *)
(* bindings or template fields is added.                                      *)

C8_Given ==
    /\ gOp = "apply"
    /\ Len(rules) >= 3
    /\ Holds(rules[1].rule, gTx)
    /\ is_empty(rules[1].template)
    /\ Holds(rules[2].rule, gTx)
    /\ ~is_empty(rules[2].template)

C8_ShortCircuit ==
    C8_Given =>
        /\ gOut.ok
        /\ gOut.val.values = extend(rules[1].values, rules[2].values)
        /\ gOut.val.template = rules[2].template
        /\ gOut.val.consulted = <<1, 2>>

\* R3's predicate holds of the transaction too and R3 carries bindings and a
\* template of its own
C8_Witness ==
    /\ C8_Given
    /\ gOut.ok
    /\ Holds(rules[3].rule, gTx)
    /\ \E k \in DOMAIN rules[3].values : k \notin DOMAIN gOut.val.values
    /\ \E k \in DOMAIN rules[3].template : k \notin DOMAIN gOut.val.template

----------------------------------------------------------------------------
(* C9: when no rule sets `type` (the defaulted payment path), the entry       *)
(* produced by generate has an amount equal to the transaction's absolute     *)
(* magnitude, even if the template or a binding sets `amount` otherwise.      *)

C9_Given ==
    /\ gOp = "generate"
    /\ gOut.ok
    /\ "type" \notin DOMAIN Applied.template

C9_DefaultAmount == C9_Given => gOut.val.amount = gTx.amount.money

\* the template and a binding both set amount to 9
C9_Witness ==
    /\ C9_Given
    /\ "amount" \in DOMAIN Applied.template
    /\ Applied.template["amount"] = VNumber(9)
    /\ "amount" \in DOMAIN Applied.values
    /\ gOut.val.amount = gTx.amount.money
    /\ gTx.amount.money # 9

----------------------------------------------------------------------------
(* C10: generate_entries returns, on success, exactly one entry per           *)
(* transaction still in the pool, in the original order of those              *)
(* transactions in the pool as loaded, also when earlier match_and_rm calls   *)
(* removed transactions from the middle of the pool.                          *)

\* the strictly increasing selections of n positions of the loaded pool
Selections(n) ==
    {f \in [1..n -> 1..Len(initial)] : \A i, j \in 1..n : i < j => f[i] < f[j]}

\* the selections that leave out exactly the transactions returned so far
Remaining ==
    {f \in Selections(Len(txs)) :
        \A t \in TxSet :
            Cardinality({i \in 1..Len(txs) : initial[f[i]] = t}) = Occurrences(txs, t)}

C10_OriginalOrder ==
    (op = "generate_entries" /\ generated.ok) =>
        /\ Len(generated.val) = Len(txs)
        /\ \E f \in Remaining :
              \A i \in 1..Len(txs) :
                  \E order \in KeyOrders(ValueNames(rules)) :
                      /\ GenerateOne(rules, initial[f[i]], order).ok
                      /\ GenerateOne(rules, initial[f[i]], order).val = generated.val[i]

----------------------------------------------------------------------------
(* C11: if rule application or generation fails for a transaction remaining   *)
(* in the pool, generate_entries returns an error and no entries at all, the  *)
(* error being that of the first failing transaction in pool order.           *)

\* the positions of the pool whose transaction fails to generate
FailingAt == {i \in 1..Len(txs) :
                 \A order \in KeyOrders(ValueNames(rules)) :
                     ~GenerateOne(rules, txs[i], order).ok}

FirstFailing == CHOOSE i \in FailingAt : \A j \in FailingAt : i <= j

C11_FirstError ==
    (op = "generate_entries" /\ FailingAt # {}) =>
        /\ ~generated.ok
        /\ \E order \in KeyOrders(ValueNames(rules)) :
              generated = GenerateOne(rules, txs[FirstFailing], order)

\* the first transaction generates, two later ones fail with different errors
C11_Witness ==
    /\ op = "generate_entries"
    /\ ~generated.ok
    /\ \E i, j \in FailingAt :
          /\ 1 < i
          /\ i < j
          /\ i = FirstFailing
          /\ \A o1, o2 \in KeyOrders(ValueNames(rules)) :
                GenerateOne(rules, txs[i], o1) # GenerateOne(rules, txs[j], o2)

----------------------------------------------------------------------------
(* C12: a transaction for which rule application or match_entry fails with an *)
(* error during match_and_rm is not removed, and a failed match or a failed   *)
(* generation leaves the pool exactly as it was: the other transactions stay  *)
(* available.                                                                 *)

\* rules.apply or match_entry returned an error for the i-th transaction of the
\* pool the latest call started with
ErroredAt(i) == ~AppliedAt(i).ok \/ ~ResultAt(i).ok

C12_ErrorsLeavePool ==
    /\ op = "match_and_rm" =>
          /\ \A i \in 1..Len(poolBefore) :
                ErroredAt(i) =>
                    /\ Occurrences(lastRemoved, poolBefore[i]) = 0
                    /\ Occurrences(txs, poolBefore[i]) =
                         Occurrences(poolBefore, poolBefore[i])
          /\ lastRemoved = <<>> => txs = poolBefore
    /\ op = "generate_entries" => txs = poolBefore

\* a transaction whose binding fails to evaluate stayed while the same call
\* removed another one
C12_Witness ==
    /\ op = "match_and_rm"
    /\ lastRemoved # <<>>
    /\ \E i \in 1..Len(poolBefore) :
          /\ AppliedAt(i).ok
          /\ ~ResultAt(i).ok
          /\ Occurrences(txs, poolBefore[i]) >= 1

----------------------------------------------------------------------------
(* C13: no error is silently swallowed: an evaluation error raised by rule    *)
(* application or by match_entry for a pool transaction during match_and_rm   *)
(* is reported to the caller, not treated as an ordinary non-match.           *)
C13_ErrorsReported ==
    (op = "match_and_rm" /\ \E i \in 1..Len(poolBefore) : ErroredAt(i)) =>
        ~Returned(lastRemoved).ok

----------------------------------------------------------------------------
(* C14: JournalLines::new fails exactly when the input lines are empty, or    *)
(* when no balance account is given and the debit and credit totals differ;   *)
(* for every non-empty input with a balance account, and every balanced       *)
(* non-empty input without one, it succeeds.                                  *)

\* JournalLines::new has returned
Built == lnOut # NoResult

C14_FailsExactlyWhen ==
    Built =>
        (~lnOut.ok <=>
            \/ lnIn = <<>>
            \/ lnBal = None /\ TotalOf(lnIn, "Debit") # TotalOf(lnIn, "Credit"))

\* an unbalanced non-empty input without a balance account was refused
C14_Witness ==
    /\ Built
    /\ ~lnOut.ok
    /\ lnIn # <<>>
    /\ lnBal = None
    /\ TotalOf(lnIn, "Debit") # TotalOf(lnIn, "Credit")

----------------------------------------------------------------------------
(* C15: with a balance account given, JournalLines::new appends exactly one   *)
(* line on that account: a Credit of (debit total - credit total) when debits *)
(* exceed credits, a Debit of (credit total - debit total) when credits       *)
(* exceed debits; when the totals are equal it appends nothing.  The other    *)
(* lines of the result are exactly the input lines.                           *)

\* the line the balance account is expected to receive, as a sequence
ExpectedBalance ==
    IF TotalOf(lnIn, "Debit") > TotalOf(lnIn, "Credit")
    THEN <<[account |-> lnBal,
            amount |-> [tag |-> "Credit",
                        money |-> TotalOf(lnIn, "Debit") - TotalOf(lnIn, "Credit")]]>>
    ELSE IF TotalOf(lnIn, "Credit") > TotalOf(lnIn, "Debit")
    THEN <<[account |-> lnBal,
            amount |-> [tag |-> "Debit",
                        money |-> TotalOf(lnIn, "Credit") - TotalOf(lnIn, "Debit")]]>>
    ELSE <<>>

\* the sequences s and t hold the same elements the same number of times
SameLines(s, t) ==
    /\ Len(s) = Len(t)
    /\ \A i \in 1..Len(s) : Occurrences(s, s[i]) = Occurrences(t, s[i])

C15_BalancingLine ==
    (Built /\ lnBal # None /\ lnIn # <<>>) =>
        /\ lnOut.ok
        /\ SameLines(lnOut.val, lnIn \o ExpectedBalance)

\* credits exceeded debits and a Debit of the difference was appended
C15_Witness ==
    /\ Built
    /\ lnOut.ok
    /\ lnBal # None
    /\ TotalOf(lnIn, "Credit") > TotalOf(lnIn, "Debit")
    /\ Len(lnOut.val) = Len(lnIn) + 1
    /\ \E i \in 1..Len(lnOut.val) :
          /\ lnOut.val[i].account = lnBal
          /\ lnOut.val[i].amount.tag = "Debit"
          /\ lnOut.val[i].amount.money = TotalOf(lnIn, "Credit") - TotalOf(lnIn, "Debit")

----------------------------------------------------------------------------
(* Claims about JournalAmount arithmetic *)

\* the amount as a signed number: Debit positive, Credit negative
Signed(amount) == IF amount.tag = "Debit" THEN amount.money ELSE 0 - amount.money

SignedSum == Signed(accA) + Signed(accB)

\* C16: accumulating two signed amounts is signed arithmetic with Credit
\* negative and Debit positive: after self += other the result is Debit(sum)
\* when the signed sum is >= 0 and Credit(-sum) otherwise, the operands may be
\* exchanged without changing the result, Debit(10) += Credit(3) is Debit(7),
\* Credit(5) += Debit(5) is Debit(0), and the result is never a Credit of zero
\* or of a negative magnitude.
C16_Accumulate ==
    accOp = "add_assign" =>
        /\ accOut = IF SignedSum >= 0
                    THEN [tag |-> "Debit", money |-> SignedSum]
                    ELSE [tag |-> "Credit", money |-> 0 - SignedSum]
        /\ accOut = add_assign(accB, accA)
        /\ ~(accOut.tag = "Credit" /\ accOut.money <= 0)
        /\ accOut.money >= 0
        /\ (accA = Debit(10) /\ accB = Credit(3)) => accOut = Debit(7)
        /\ (accA = Credit(5) /\ accB = Debit(5)) => accOut = Debit(0)

C16_Witness ==
    /\ accOp = "add_assign"
    /\ accA = Credit(5)
    /\ accB = Debit(5)
    /\ accOut = [tag |-> "Debit", money |-> 0]

\* C17: inverting a signed amount gives the other tag with the same
\* magnitude, and inverting twice gives the amount back.
C17_Involution ==
    /\ accOp = "invert" =>
        /\ accOut.tag # accA.tag
        /\ accOut.tag \in {"Debit", "Credit"}
        /\ abs_amount(accOut) = abs_amount(accA)
        /\ accOut.money = accA.money
    /\ accOp = "invert_twice" => accOut = accA

C17_Witness ==
    /\ accOp = "invert_twice"
    /\ accA = Credit(3)
    /\ accOut = Credit(3)

----------------------------------------------------------------------------
(* Claims about BankTx::from_str *)

Parsed == pOut # NoResult
FieldNames == <<"date", "account", "debit", "credit", "memo">>
IsMoneyText(s) == s \in {"1", "$2"}
MoneyOfText(s) == IF s = "1" THEN 1 ELSE 2
ParsedAs(tag, text) ==
    /\ pOut.ok
    /\ pOut.val.amount = [tag |-> tag, money |-> MoneyOfText(text)]
NamesFirstMissing ==
    /\ ~pOut.ok
    /\ pOut.val = "Error getting " \o FieldNames[Len(pLine) + 1] \o " from bank tx"

\* the outcome the format gives a line, by its debit and credit fields
AmountOutcome ==
    /\ (Len(pLine) >= 5 /\ IsMoneyText(pLine[3]) /\ ~IsMoneyText(pLine[4]))
           => ParsedAs("Debit", pLine[3])
    /\ (Len(pLine) >= 5 /\ ~IsMoneyText(pLine[3]) /\ IsMoneyText(pLine[4]))
           => ParsedAs("Credit", pLine[4])
    /\ (Len(pLine) >= 5 /\ IsMoneyText(pLine[3]) /\ IsMoneyText(pLine[4]))
           => ~pOut.ok
    /\ (Len(pLine) >= 5 /\ ~IsMoneyText(pLine[3]) /\ ~IsMoneyText(pLine[4]))
           => ~pOut.ok
    /\ Len(pLine) < 5 => NamesFirstMissing

\* C18 as stated, for every line: parsing yields Debit(m) when only the debit
\* field is a money value m, Credit(m) when only the credit field is, fails
\* when both or neither are, and a line of fewer than five fields fails with
\* an error naming the first missing field.
C18_EveryLine == Parsed => AmountOutcome

\* C18: for a line whose first field is a valid date, parsing yields Debit(m)
\* when only the debit field is a money value m, Credit(m) when only the
\* credit field is, fails when both or neither are, and a line of fewer than
\* five fields fails with an error naming the first missing field; a line
\* whose first field is not a valid date fails, whatever its other fields.
C18_DatedLine ==
    Parsed =>
        /\ pLine[1] \in Dates => AmountOutcome
        /\ pLine[1] \notin Dates => ~pOut.ok

C18_Witness ==
    /\ Parsed
    /\ Len(pLine) = 5
    /\ pLine[1] \in Dates
    /\ pLine[3] = "$2"
    /\ pLine[4] = ""
    /\ pOut.ok
    /\ pOut.val.amount = [tag |-> "Debit", money |-> 2]

\* C19: a line in which one of the debit and credit fields is a money value
\* and the other is not blank is rejected with an error, never accepted as a
\* transaction.
OtherNotBlank ==
    /\ Len(pLine) >= 5
    /\ \/ IsMoneyText(pLine[3]) /\ pLine[4] # ""
       \/ IsMoneyText(pLine[4]) /\ pLine[3] # ""

C19_OtherMustBeBlank == (Parsed /\ OtherNotBlank) => ~pOut.ok

----------------------------------------------------------------------------
(* Claims about the values of a rule *)

\* RecRules::apply reaches the rule at index i: no earlier rule failed or
\* carried an entry template
Reached(i) ==
    \A j \in 1..(i - 1) : rawRules[j].rule.op # "fail" /\ rawRules[j].entry = Absent

AppliedOk == \A i \in 1..Len(rawRules) : Reached(i) => rawRules[i].rule.op # "fail"

HasValue(i, k) == rawRules[i].values # Absent /\ k \in DOMAIN rawRules[i].values[1]

\* the rule at index i binds the name k for the transaction
Binds(i, k) == Reached(i) /\ Holds(rules[i].rule, gTx) /\ HasValue(i, k)

BoundNames == {k \in ValueNames(rules) : \E i \in 1..Len(rawRules) : Binds(i, k)}

\* the value of the rules file that the name k is bound to: the last one merged
SourceOf(k) ==
    rawRules[CHOOSE i \in 1..Len(rawRules) :
               Binds(i, k) /\ \A j \in (i + 1)..Len(rawRules) : ~Binds(j, k)].values[1][k]

BareStrings == {k \in BoundNames : SourceOf(k).j = "String"}

----------------------------------------------------------------------------
(* Claims about the lines of a generated entry *)

\* generate returned an entry for gTx, whose rules bind bank_account and whose
\* template sets neither `type` nor `account`
GeneratedDefault ==
    /\ gOp = "generate"
    /\ gOut.ok
    /\ BankAccountOf(rules, gTx) # None
    /\ "type" \notin DOMAIN Applied.template
    /\ "account" \notin DOMAIN Applied.template

\* the journal lines of the generated entry
GeneratedLines == EntryLines(gOut.val).val

\* the amounts of the lines of the generated entry on the account B
AmountsOn(B) ==
    {GeneratedLines[i].amount : i \in {j \in 1..Len(GeneratedLines) :
                                         GeneratedLines[j].account = B}}

\* C21 as stated: for a Debit transaction of magnitude m whose rules bind
\* bank_account to B and set no `type`, the generated entry carries a debit
\* of m on B and a credit of m on the contra account Accounts Payable.
C21_OwnSignOnBank ==
    (GeneratedDefault /\ gTx.amount.tag = "Debit") =>
        /\ AmountsOn(BankAccountOf(rules, gTx))
             = {[tag |-> "Debit", money |-> gTx.amount.money]}
        /\ AmountsOn("Accounts Payable")
             = {[tag |-> "Credit", money |-> gTx.amount.money]}

\* C21: for a Debit transaction of magnitude m whose rules bind bank_account
\* to B and whose template sets neither `type` nor `account`, the generated
\* entry is a Payment Sent that carries a credit of m on B and a debit of m on
\* Accounts Payable, and no other line.
C21_DebitCreditsBank ==
    (GeneratedDefault /\ gTx.amount.tag = "Debit") =>
        /\ gOut.val.type = "Payment Sent"
        /\ AmountsOn(BankAccountOf(rules, gTx))
             = {[tag |-> "Credit", money |-> gTx.amount.money]}
        /\ AmountsOn("Accounts Payable")
             = {[tag |-> "Debit", money |-> gTx.amount.money]}
        /\ Len(GeneratedLines) = 2

C21_Witness ==
    /\ GeneratedDefault
    /\ gTx.amount = [tag |-> "Debit", money |-> 2]
    /\ BankAccountOf(rules, gTx) = "Bank"
    /\ AmountsOn("Bank") = {[tag |-> "Credit", money |-> 2]}

\* the account a defaulted payment is offset against
ContraAccount == IF gTx.amount.tag = "Credit" THEN "Accounts Receivable"
                 ELSE "Accounts Payable"

----------------------------------------------------------------------------
(* Claims about where match_and_rm stops *)

\* the positions of the sequence of transactions bound to the account B
BoundTo(pool, B) == {i \in 1..Len(pool) : BankAccountOf(rules, pool[i]) = B}

\* the transaction matches the entry of the latest call
StillMatches(tx) ==
    /\ MatchApplied(RecRulesApply(rules, tx), lastEntry).ok
    /\ MatchApplied(RecRulesApply(rules, tx), lastEntry).val

\* C23: match_and_rm(entry) stops only when the pool is exhausted, no
\* remaining transaction matches the entry, or the required count is reached:
\* on return, for each bank account B, either no transaction left in the pool
\* that is bound to B matches the entry, or the number of removed transactions
\* bound to B equals the number of the entry's lines on B.
C23_StopsOnlyWhen ==
    op = "match_and_rm" =>
        \A B \in BankAccounts :
            \/ \A i \in BoundTo(txs, B) : ~StillMatches(txs[i])
            \/ Cardinality(BoundTo(lastRemoved, B)) = Cardinality(LinesOn(lastEntry, B))

----------------------------------------------------------------------------
(* Claims about RecRules::apply *)

SameMap(a, b) == DOMAIN a = DOMAIN b /\ \A k \in DOMAIN a : a[k] = b[k]

\* no predicate of the rules fails to evaluate
NoRuleFails == \A i \in 1..Len(rules) : rules[i].rule.op # "fail"

\* the rules whose predicate is true of gTx and whose template is not empty
TerminalRules ==
    {i \in 1..Len(rules) : Holds(rules[i].rule, gTx) /\ DOMAIN rules[i].template # {}}

\* the first of them, or the last rule if there is none
LastApplied ==
    IF TerminalRules = {} THEN Len(rules)
    ELSE CHOOSE i \in TerminalRules : \A j \in TerminalRules : i <= j

\* the bindings of the rules up to n whose predicates are true, later ones
\* overwriting earlier ones
RECURSIVE MergedValues(_)
MergedValues(n) ==
    IF n = 0 THEN EmptyMap
    ELSE IF Holds(rules[n].rule, gTx)
         THEN extend(MergedValues(n - 1), rules[n].values)
    ELSE MergedValues(n - 1)

\* C24: a rule whose predicate is false for the transaction contributes
\* nothing and does not stop rule application, even if it carries a non-empty
\* template: apply(tx) returns the template of the first rule in order whose
\* predicate is true and whose template is non-empty (empty if there is
\* none), with the bindings of exactly the rules up to and including that one
\* whose predicates are true.
C24_FalseRuleNoStop ==
    (gOp = "apply" /\ NoRuleFails) =>
        /\ gOut.ok
        /\ SameMap(gOut.val.template,
                   IF TerminalRules = {} THEN EmptyMap
                   ELSE rules[LastApplied].template)
        /\ SameMap(gOut.val.values, MergedValues(LastApplied))

\* the rule at index i is reached by apply and its predicate fails to evaluate
FailsAt(i) == i \in 1..Len(rules) /\ Reached(i) /\ rules[i].rule.op = "fail"

\* the error RecRule::apply returns when the same rule fails at the index j
ErrorOfRuleAt(i, j) == RecRuleApply(rules[i], j, GenEntryNew(gTx))

\* C25: when the predicate of the rule at index i fails to evaluate,
\* apply(tx) returns no generating entry but an error, and the error
\* identifies the index i: it is not the error the failure of the rule at
\* another index would give.
C25_ErrorNamesIndex ==
    gOp = "apply" =>
        \A i \in 1..Len(rules) :
            FailsAt(i) =>
                /\ ~gOut.ok
                /\ \A j \in 1..(MaxRules + 1) : j # i => gOut # ErrorOfRuleAt(i, j)

----------------------------------------------------------------------------
(* Claims about the fields generate fills *)

Generated == gOp = "generate" /\ gOut.ok

\* the string the resolved template gives the field
TemplateGives(field, value) ==
    \E order \in KeyOrders(DOMAIN Applied.values) :
        value = Flatten(Evaluate(Applied, order).val.templated[field].v)

\* the field of the generated entry is the template's if the template has
\* it, and the given default otherwise
FilledWith(field, value, default) ==
    IF field \in DOMAIN Applied.template THEN TemplateGives(field, value)
    ELSE value = default

\* C26 as stated: generate fills id, date and memo only when they are absent
\* from the resolved template, and a filled date and memo are the
\* transaction's own date and memo, whatever the rule bindings are named.
C26_FromTransaction ==
    Generated =>
        /\ FilledWith("date", gOut.val.date, gTx.date)
        /\ FilledWith("memo", gOut.val.memo, gTx.memo)

\* the value generate fills an absent field with: the binding of that name
\* if there is one, the given value of the transaction otherwise
BindingOr(field, own) ==
    IF field \in DOMAIN Applied.values THEN Evaled(Applied).val[field] ELSE own

\* C26: generate fills id, date and memo only when they are absent from the
\* resolved template (a value supplied by the template is never overwritten);
\* a filled field is the resolved binding named id, date or memo if the rules
\* bind that name, and otherwise the transaction's own date and memo and the
\* id "{date}-{absolute amount}".
C26_FillsAbsent ==
    Generated =>
        /\ FilledWith("date", gOut.val.date, BindingOr("date", gTx.date))
        /\ FilledWith("memo", gOut.val.memo, BindingOr("memo", gTx.memo))
        /\ FilledWith("id", gOut.val.id,
                      BindingOr("id", gTx.date \o "-" \o ToString(gTx.amount.money)))

\* the template supplies a memo while the rules also bind the name memo
C26_Witness ==
    /\ Generated
    /\ "memo" \in DOMAIN Applied.template
    /\ "memo" \in DOMAIN Applied.values
    /\ gOut.val.memo = "Fee"
    /\ gOut.val.date = gTx.date
    /\ gTx.memo # "Fee"

----------------------------------------------------------------------------
(* Claims about template interpolation *)

\* the text is the token of a resolved binding
IsBoundToken(text) == \E name \in DOMAIN tEvaled : text = "{" \o name \o "}"

\* the piece of a string after interpolation
Piece(text) ==
    IF IsBoundToken(text)
    THEN tEvaled[CHOOSE name \in DOMAIN tEvaled : text = "{" \o name \o "}"]
    ELSE text

\* the value with every token of a resolved binding replaced in every string
\* leaf, and nothing else changed
RECURSIVE Substituted(_)
Substituted(val) ==
    CASE val.k = "String" -> [k |-> "String", v |-> [i \in 1..Len(val.v) |-> Piece(val.v[i])]]
      [] val.k = "Array" ->
           [k |-> "Array", v |-> [i \in 1..Len(val.v) |-> Substituted(val.v[i])]]
      [] val.k = "Object" ->
           [k |-> "Object", v |-> [key \in DOMAIN val.v |-> Substituted(val.v[key])]]
      [] OTHER -> val

\* C27: template interpolation replaces every {name} token whose name is a
\* resolved binding, in every string leaf at any depth of nested objects and
\* arrays, with that binding's value; tokens naming no binding, all
\* non-string leaves (numbers, null) and all keys are left unchanged.
C27_EveryLeaf == tOut.ok => tOut.val = Substituted(tVal)

\* no resolved value is itself the token of a resolved binding
Unchained == \A name \in DOMAIN tEvaled : ~IsBoundToken(tEvaled[name])

\* the statement of C27 on the bindings whose values hold no token
C27_Unchained == (tOut.ok /\ Unchained) => tOut.val = Substituted(tVal)

\* a string two levels deep is interpolated under a key that reads like a
\* token, next to a token that names no binding
C27_Witness ==
    /\ tOut.ok
    /\ "value" \in DOMAIN tEvaled
    /\ Unchained
    /\ tVal.k = "Object"
    /\ DOMAIN tVal.v = {"{value}"}
    /\ tVal.v["{value}"].k = "Array"
    /\ Len(tVal.v["{value}"].v) = 2
    /\ tVal.v["{value}"].v[1].k = "String"
    /\ tVal.v["{value}"].v[1].v = <<Token("other"), " test">>
    /\ tVal.v["{value}"].v[2].v = <<"test ", Token("value")>>
    /\ DOMAIN tOut.val.v = {"{value}"}
    /\ tOut.val.v["{value}"].v[1].v = <<"{other}", " test">>
    /\ tOut.val.v["{value}"].v[2].v = <<"test ", "result">>

\* C30: the interpolated template is determined by the template and the set of
\* resolved bindings alone: it is the same for every order in which the
\* bindings are substituted, also when the resolved value of one binding
\* contains the token of another binding.
C30_OrderIndependent ==
    tOut.ok =>
        \A order \in KeyOrders(DOMAIN tEvaled) : tOut.val = TemplateDeep(tVal, tEvaled, order)

\* the statement of C30 on the bindings whose values hold no token
C30_Unchained ==
    (tOut.ok /\ Unchained) =>
        \A order \in KeyOrders(DOMAIN tEvaled) : tOut.val = TemplateDeep(tVal, tEvaled, order)

----------------------------------------------------------------------------
(* Claims about the order of the lines *)

IsDebitLine(line) == is_debit(line.amount)
IsCreditLine(line) == is_credit(line.amount)

\* the lines `out` hold the lines `inp`, the debits in their order and the
\* credits in theirs
KeepsOrder(out, inp) ==
    /\ SelectSeq(out, IsDebitLine) = SelectSeq(inp, IsDebitLine)
    /\ SelectSeq(out, IsCreditLine) = SelectSeq(inp, IsCreditLine)

\* C28: in every line set returned by build all Debit lines precede all Credit
\* lines, and the sort is stable: the Debit lines keep their input order among
\* themselves and so do the Credit lines, an appended balancing line counting
\* as the last line of the input.
C28_StableDebitsFirst ==
    lnOut.ok =>
        /\ \A i, j \in 1..Len(lnOut.val) :
               (i < j /\ IsDebitLine(lnOut.val[j])) => IsDebitLine(lnOut.val[i])
        /\ Len(lnOut.val) = Len(lnIn) => KeepsOrder(lnOut.val, lnIn)
        /\ Len(lnOut.val) # Len(lnIn) =>
               \E k \in 1..Len(lnOut.val) :
                   /\ lnOut.val[k].account = lnBal
                   /\ KeepsOrder(lnOut.val, Append(lnIn, lnOut.val[k]))

\* a credit, a debit and a credit are given and a balancing debit is appended:
\* the two debits move in front, the given one first
C28_Witness ==
    /\ lnOut.ok
    /\ Len(lnIn) = 3
    /\ IsCreditLine(lnIn[1]) /\ IsDebitLine(lnIn[2]) /\ IsCreditLine(lnIn[3])
    /\ Len(lnOut.val) = 4
    /\ lnOut.val[1] = lnIn[2]
    /\ lnOut.val[2].account = lnBal /\ IsDebitLine(lnOut.val[2])
    /\ lnOut.val[3] = lnIn[1]
    /\ lnOut.val[4] = lnIn[3]
    /\ lnIn[1] # lnIn[3]

----------------------------------------------------------------------------
(* Claims about a reconciliation run on its own output *)

\* the rules bind bank_account for every transaction of the pool and the
\* template they accumulate sets no type, date or account
BindsEveryTx(pool) ==
    \A i \in 1..Len(pool) :
        /\ BankAccountOf(rules, pool[i]) # None
        /\ RecRulesApply(rules, pool[i]).ok
        /\ DOMAIN RecRulesApply(rules, pool[i]).val.template
               \cap {"type", "date", "account"} = {}

\* C29: reconciliation is closed under its own output: when the rules bind
\* bank_account for every transaction of a pool, set no type, date or account
\* in the template, and generate_entries on the pool succeeds, match_and_rm
\* for each generated entry in order, on the same pool, removes every
\* transaction of the pool.
C29_RemovesAll ==
    (op = "match_generated" /\ BindsEveryTx(poolBefore)) => txs = <<>>

\* the statement of C29 on the pools whose transactions are all bound to one
\* bank account
C29_OneAccount ==
    (/\ op = "match_generated"
     /\ BindsEveryTx(poolBefore)
     /\ \A i, j \in 1..Len(poolBefore) :
            BankAccountOf(rules, poolBefore[i]) = BankAccountOf(rules, poolBefore[j]))
        => txs = <<>>

====
